---- MODULE Spec2Model ----
(***************************************************************************)
(* GenDocs (src/index.tsx): a React application holding two persisted      *)
(* collections (customers, documents) behind useLocalStorage, a customer   *)
(* form, and a document draft whose line items can be edited by hand or    *)
(* replaced by the result of one asynchronous generative-AI request.       *)
(*                                                                         *)
(* Representation of JavaScript values                                     *)
(*   string            a TLA+ string; an identifier string is a sequence   *)
(*                     of number tokens, so that string concatenation is   *)
(*                     \o and '' is << >>                                  *)
(*   number            [t |-> "number", n |-> k], Infinity and NaN tagged  *)
(*   array             [t |-> "array", elems |-> <<...>>] at the places    *)
(*                     where a non-array can stand (a parsed store value,  *)
(*                     a parsed response); a plain sequence elsewhere      *)
(*   object            a record; an absent property is an absent field     *)
(* One step of the model is one event handler run to completion followed   *)
(* by the re-render it causes (React flushes effects before the next       *)
(* discrete event), or the completion of the awaited request.              *)
(***************************************************************************)
EXTENDS Integers, Sequences, FiniteSets

\* ---------------------------------------------------------------- bounds
MaxTime == 1
MaxCustomers == 2
MaxDocuments == 1
MaxItems == 2
MaxInFlight == 2

VARIABLES
  activeView,   \* App: useState("dashboard")
  customers,    \* App: useLocalStorage("gendocs_customers", [])
  documents,    \* App: useLocalStorage("gendocs_documents", [])
  store,        \* window.localStorage, the two keys the application uses
  name,         \* CustomerManager form state
  email,
  address,
  type,         \* DocumentCreator draft state
  customerId,
  lineItems,
  aiPrompt,
  isLoading,
  pending,      \* generateContent calls in flight, issued by the mounted DocumentCreator
  orphans,      \* generateContent calls in flight whose DocumentCreator has unmounted
  now,          \* the last value Date.now() returned
  crashed,      \* a render threw: React has unmounted the whole tree
  writeFailed,  \* some localStorage.setItem has thrown since the page was loaded
  last          \* the handler that ran last, its arguments and what it showed the user

vars == <<activeView, customers, documents, store, name, email, address, type,
          customerId, lineItems, aiPrompt, isLoading, pending, orphans, now,
          crashed, writeFailed, last>>

\* ------------------------------------------------------- JavaScript values
Num(k) == [t |-> "number", n |-> k]
PosInfinity == [t |-> "Infinity"]
NaN == [t |-> "NaN"]
JsNull == [t |-> "null"]
Arr(s) == [t |-> "array", elems |-> s]
EmptyObject == [t |-> "object"]
TypeError == [t |-> "TypeError"]
SyntaxError == [t |-> "SyntaxError"]

IsArray(v) == v.t = "array"

\* n.toString() of a timestamp: one token
ToString(k) == <<k>>

\* new Date().toISOString()
ToISOString(k) == [iso |-> k]

\* ------------------------------------------------------------------ JSON
\* A text is absent (getItem gave null), the empty string, a text JSON.parse
\* rejects, or a JSON text, held as the tree of its literals.
NoItem == [kind |-> "null"]
EmptyText == [kind |-> "empty"]
MalformedText == [kind |-> "malformed"]
JsonText(lit) == [kind |-> "json", lit |-> lit]

\* The number literal 1e999: more than the largest double.
HugeLit == [t |-> "1e999"]

NumberFields == {"quantity", "unitPrice"}

\* JSON.stringify of a number: a non-finite number is written null.
StringifyNumber(v) == IF v.t \in {"Infinity", "NaN"} THEN JsNull ELSE v

\* JSON.parse of a number literal: a literal beyond the doubles reads Infinity.
ParseNumber(l) == IF l.t = "1e999" THEN PosInfinity ELSE l

StringifyItem(item) ==
  [f \in DOMAIN item |-> IF f \in NumberFields THEN StringifyNumber(item[f]) ELSE item[f]]

ParseItem(lit) ==
  [f \in DOMAIN lit |-> IF f \in NumberFields THEN ParseNumber(lit[f]) ELSE lit[f]]

StringifyElement(e) ==
  [f \in DOMAIN e |-> IF f = "lineItems" THEN [i \in 1..Len(e[f]) |-> StringifyItem(e[f][i])] ELSE e[f]]

ParseElement(lit) ==
  [f \in DOMAIN lit |-> IF f = "lineItems" THEN [i \in 1..Len(lit[f]) |-> ParseItem(lit[f][i])] ELSE lit[f]]

\* JSON.stringify(valueToStore)
JSONstringify(v) ==
  JsonText(IF IsArray(v) THEN Arr([i \in 1..Len(v.elems) |-> StringifyElement(v.elems[i])]) ELSE v)

\* JSON.parse(item) of a stored text; SyntaxError for a text that is not JSON
JSONparse(text) ==
  IF text.kind # "json" THEN SyntaxError
  ELSE IF IsArray(text.lit) THEN Arr([i \in 1..Len(text.lit.elems) |-> ParseElement(text.lit.elems[i])])
  ELSE IF "lineItems" \in DOMAIN text.lit /\ IsArray(text.lit.lineItems)
    THEN [text.lit EXCEPT !.lineItems = Arr([i \in 1..Len(text.lit.lineItems.elems) |-> ParseItem(text.lit.lineItems.elems[i])])]
  ELSE text.lit

\* --------------------------------------------------------- useLocalStorage
CustomersKey == "gendocs_customers"
DocumentsKey == "gendocs_documents"
Keys == {CustomersKey, DocumentsKey}

\* The initializer of useState in useLocalStorage: item ? JSON.parse(item) : initialValue,
\* and initialValue when JSON.parse throws.
ReadStored(item, initialValue) ==
  IF item.kind \in {"null", "empty"} THEN initialValue
  ELSE LET parsed == JSONparse(item)
       IN  IF parsed = SyntaxError THEN initialValue ELSE parsed

\* The reverse of the spread below: the new element first. C6 is measured against it.
PrependTo(prev, x) == IF IsArray(prev) THEN Arr(<<x>> \o prev.elems) ELSE TypeError

\* prev => [...prev, x]: spreading a value that is not iterable throws.
AppendTo(prev, x) == IF IsArray(prev) THEN Arr(Append(prev.elems, x)) ELSE TypeError

\* setValue(value): what the hook holds and what the store holds afterwards.
\* valueToStore is value(storedValue); setItemOk is whether localStorage.setItem
\* returned (it throws when the quota is exceeded). Everything is inside one try.
setValue(key, storedValue, valueToStore, setItemOk) ==
  IF valueToStore = TypeError
    THEN [stored |-> storedValue, store |-> store, write |-> "threw"]
  ELSE IF setItemOk
    THEN [stored |-> valueToStore,
          store |-> [store EXCEPT ![key] = JSONstringify(valueToStore)],
          write |-> "ok"]
  ELSE [stored |-> valueToStore, store |-> store, write |-> "failed"]

\* --------------------------------------------------------------- rendering
Views == {"dashboard", "customers", "creator"}

\* Dashboard calls documents.filter on every render and customers.find for
\* every document card; the other two views only read customers.length.
RenderThrows(view, custs, docs) ==
  /\ view = "dashboard"
  /\ \/ ~IsArray(docs)
     \/ (Len(docs.elems) > 0 /\ ~IsArray(custs))

\* The effect of DocumentCreator: with customers and no customer selected,
\* select the first one.
selectDefaultCustomer(custs, cid) ==
  IF IsArray(custs) /\ Len(custs.elems) > 0 /\ cid = <<>> THEN custs.elems[1].id ELSE cid

\* What the last step was, for the handlers whose outcome is observed; the
\* other handlers leave no more than this.
Other == [op |-> "other"]

formVars == <<name, email, address>>
draftVars == <<type, customerId, lineItems, aiPrompt, isLoading>>
appVars == <<activeView, customers, documents, store>>

\* useState initial values of CustomerManager
FormInitial == name' = "" /\ email' = "" /\ address' = ""

\* useState initial values of DocumentCreator, then its effect
DraftInitial(view, custs) ==
  /\ type' = "Invoice"
  /\ customerId' = IF view = "creator" THEN selectDefaultCustomer(custs, <<>>) ELSE <<>>
  /\ lineItems' = <<>>
  /\ aiPrompt' = ""
  /\ isLoading' = FALSE

\* A component that is no longer rendered is unmounted and its state dropped;
\* the requests it awaits stay in flight.
Remount(view, custs) ==
  /\ FormInitial
  /\ DraftInitial(view, custs)
  /\ pending' = 0
  /\ orphans' = orphans + pending

\* ------------------------------------------------------------------- App
\* The bound on the documents collection: a new draft is begun only while
\* saveDocument can still append.
CanStillSave == IsArray(documents) => Len(documents.elems) < MaxDocuments

\* Header buttons, the logo, and the dashboard's Create Document button
setActiveView(view) ==
  /\ ~crashed
  /\ (view = "creator" /\ activeView # "creator") => CanStillSave
  /\ activeView' = view
  /\ IF view = activeView
       THEN UNCHANGED <<formVars, draftVars, pending, orphans>>
       ELSE Remount(view, customers)
  /\ crashed' = RenderThrows(view, customers, documents)
  /\ last' = Other
  /\ UNCHANGED <<customers, documents, store, now, writeFailed>>

\* ------------------------------------------------------- CustomerManager
Names == {"", "Ann"}
Emails == {"", "ann@example.com"}
Addresses == {"", "1 Main St"}
FewAddresses == {""}

setName(v) ==
  /\ ~crashed /\ activeView = "customers"
  /\ name' = v
  /\ last' = Other
  /\ UNCHANGED <<appVars, email, address, draftVars, pending, orphans, now, crashed, writeFailed>>

setEmail(v) ==
  /\ ~crashed /\ activeView = "customers"
  /\ email' = v
  /\ last' = Other
  /\ UNCHANGED <<appVars, name, address, draftVars, pending, orphans, now, crashed, writeFailed>>

setAddress(v) ==
  /\ ~crashed /\ activeView = "customers"
  /\ address' = v
  /\ last' = Other
  /\ UNCHANGED <<appVars, name, email, draftVars, pending, orphans, now, crashed, writeFailed>>

\* A guard that forgets the email. C1 is measured against it.
SubmitRejectedNameOnly == name = ""

\* if(!name || !email) return;
SubmitRejected == name = "" \/ email = ""

\* CustomerManager.handleSubmit
handleSubmit ==
  /\ ~crashed /\ activeView = "customers"
  /\ IF SubmitRejected
       THEN /\ last' = [op |-> "addCustomer", ok |-> FALSE, write |-> "none"]
            /\ UNCHANGED <<appVars, formVars, now, writeFailed>>
       ELSE \E t \in now..MaxTime, setItemOk \in BOOLEAN :
              LET newCustomer == [id |-> ToString(t), name |-> name,
                                  email |-> email, address |-> address]
                  r == setValue(CustomersKey, customers,
                                AppendTo(customers, newCustomer), setItemOk)
              IN  /\ IsArray(customers) => Len(customers.elems) < MaxCustomers
                  /\ now' = t
                  /\ customers' = r.stored
                  /\ store' = r.store
                  /\ writeFailed' = (writeFailed \/ r.write = "failed")
                  /\ FormInitial
                  /\ last' = [op |-> "addCustomer", ok |-> TRUE, write |-> r.write]
                  /\ UNCHANGED <<activeView, documents>>
  /\ UNCHANGED <<draftVars, pending, orphans, crashed>>

\* ------------------------------------------------------- DocumentCreator
DocumentTypes == {"Invoice", "Quotation"}
Prompts == {"", "a company website"}

setType(v) ==
  /\ ~crashed /\ activeView = "creator"
  /\ type' = v
  /\ last' = Other
  /\ UNCHANGED <<appVars, formVars, customerId, lineItems, aiPrompt, isLoading,
                 pending, orphans, now, crashed, writeFailed>>

\* The select lists the customers; the effect runs after the change.
setCustomerId(v) ==
  /\ ~crashed /\ activeView = "creator"
  /\ IsArray(customers)
  /\ \E i \in 1..Len(customers.elems) : customers.elems[i].id = v
  /\ customerId' = selectDefaultCustomer(customers, v)
  /\ last' = Other
  /\ UNCHANGED <<appVars, formVars, type, lineItems, aiPrompt, isLoading,
                 pending, orphans, now, crashed, writeFailed>>

setAiPrompt(v) ==
  /\ ~crashed /\ activeView = "creator"
  /\ aiPrompt' = v
  /\ last' = Other
  /\ UNCHANGED <<appVars, formVars, type, customerId, lineItems, isLoading,
                 pending, orphans, now, crashed, writeFailed>>

\* A button that stays enabled while a request is pending. C10 is measured against it.
CanGenerateWhileLoading == aiPrompt # ""

\* handleGenerateWithAI up to the await. The button is disabled while
\* isLoading or without a prompt; the handler returns without a prompt.
CanGenerate == ~isLoading /\ aiPrompt # ""

handleGenerateWithAI ==
  /\ ~crashed /\ activeView = "creator"
  /\ CanGenerate
  /\ pending + orphans < MaxInFlight
  /\ isLoading' = TRUE
  /\ pending' = pending + 1
  /\ last' = Other
  /\ UNCHANGED <<appVars, formVars, type, customerId, lineItems, aiPrompt,
                 orphans, now, crashed, writeFailed>>

\* What the service can answer with.
Design == [description |-> "Design", quantity |-> Num(10), unitPrice |-> Num(50)]
Hosting == [description |-> "Hosting", quantity |-> Num(1), unitPrice |-> Num(120)]
NoNumbers == [description |-> "Design"]
Overflowing == [description |-> "Bulk", quantity |-> HugeLit, unitPrice |-> Num(1)]

ResponseObject(items) == [t |-> "object", lineItems |-> Arr(items)]

Responses ==
  { [kind |-> "rejected"],
    [kind |-> "text", text |-> MalformedText],
    [kind |-> "text", text |-> JsonText(JsNull)],
    [kind |-> "text", text |-> JsonText(EmptyObject)],
    [kind |-> "text", text |-> JsonText([t |-> "object", lineItems |-> [t |-> "string"]])],
    [kind |-> "text", text |-> JsonText(ResponseObject(<<>>))],
    [kind |-> "text", text |-> JsonText(ResponseObject(<<Design, Hosting>>))],
    [kind |-> "text", text |-> JsonText(ResponseObject(<<NoNumbers>>))],
    [kind |-> "text", text |-> JsonText(ResponseObject(<<Overflowing>>))] }

FewResponses ==
  { [kind |-> "rejected"],
    [kind |-> "text", text |-> JsonText(ResponseObject(<<Overflowing>>))] }

NetworkError == [t |-> "NetworkError"]
Undefined == [t |-> "undefined"]

\* result.lineItems of the parsed response text, or the exception thrown on the way
ResultLineItems(resp) ==
  IF resp.kind = "rejected" THEN NetworkError
  ELSE LET result == JSONparse(resp.text)
       IN  IF result = SyntaxError THEN SyntaxError
           ELSE IF result.t = "null" THEN TypeError
           ELSE IF "lineItems" \notin DOMAIN result THEN Undefined
           ELSE result.lineItems

IsException(v) == v.t \in {"NetworkError", "SyntaxError", "TypeError"}

\* {...item, [field]: value}
WithField(item, field, value) ==
  [f \in (DOMAIN item) \cup {field} |-> IF f = field THEN value ELSE item[f]]

\* What Math.random() can give, as the text it is concatenated as
Randoms == {1, 2}

\* Date.now().toString() + Math.random()
GeneratedId(t, r) == ToString(t) \o <<r>>

\* Successive readings of the clock
NonDecreasing(ts) == \A i, j \in DOMAIN ts : i < j => ts[i] <= ts[j]

\* handleGenerateWithAI after the await, in an instance that is still mounted
\* (live) or in one that has been unmounted, whose setState calls do nothing.
aiComplete(live, resp) ==
  /\ IF live THEN pending > 0 ELSE orphans > 0
  /\ LET got == ResultLineItems(resp)
         mapped == IsArray(got)
         thrown == IsException(got) \/ (~mapped /\ got.t = "string")
         n == IF mapped THEN Len(got.elems) ELSE 0
     IN  \E ts \in [1..n -> now..MaxTime], rs \in [1..n -> Randoms] :
           /\ NonDecreasing(ts)
           /\ now' = IF n > 0 THEN ts[n] ELSE now
           /\ lineItems' =
                IF live /\ mapped
                  THEN [i \in 1..n |-> WithField(got.elems[i], "id", GeneratedId(ts[i], rs[i]))]
                  ELSE lineItems
           /\ last' = [op |-> "aiComplete", alert |-> thrown]
  /\ isLoading' = IF live THEN FALSE ELSE isLoading
  /\ pending' = IF live THEN pending - 1 ELSE pending
  /\ orphans' = IF live THEN orphans ELSE orphans - 1
  /\ UNCHANGED <<appVars, formVars, type, customerId, aiPrompt, crashed, writeFailed>>

addLineItem ==
  /\ ~crashed /\ activeView = "creator"
  /\ Len(lineItems) < MaxItems
  /\ \E t \in now..MaxTime :
       /\ now' = t
       /\ lineItems' = Append(lineItems, [id |-> ToString(t), description |-> "",
                                          quantity |-> Num(1), unitPrice |-> Num(0)])
  /\ last' = Other
  /\ UNCHANGED <<appVars, formVars, type, customerId, aiPrompt, isLoading,
                 pending, orphans, crashed, writeFailed>>

\* prev.filter(item => item.id !== id)
WithoutId(prev, id) == SelectSeq(prev, LAMBDA item : item.id # id)

removeLineItem(id) ==
  /\ ~crashed /\ activeView = "creator"
  /\ \E i \in 1..Len(lineItems) : lineItems[i].id = id
  /\ lineItems' = WithoutId(lineItems, id)
  /\ last' = Other
  /\ UNCHANGED <<appVars, formVars, type, customerId, aiPrompt, isLoading,
                 pending, orphans, now, crashed, writeFailed>>

\* What the inputs of a row hand to updateLineItem: e.target.value for the
\* description, parseFloat(e.target.value) || 0 for the two numbers.
parseFloat(raw) == IF raw = "7" THEN Num(7) ELSE NaN
OrZero(v) == IF v = NaN \/ v = Num(0) THEN Num(0) ELSE v

RowInputs ==
  { [field |-> "description", value |-> "Logo"],
    [field |-> "quantity", value |-> OrZero(parseFloat(""))],
    [field |-> "unitPrice", value |-> OrZero(parseFloat("7"))] }

FewRowInputs == {[field |-> "description", value |-> "Logo"]}

\* prev.map(item => item.id === id ? {...item, [field]: value} : item)
WithUpdate(prev, id, field, value) ==
  [i \in 1..Len(prev) |-> IF prev[i].id = id THEN WithField(prev[i], field, value) ELSE prev[i]]

updateLineItem(id, field, value) ==
  /\ ~crashed /\ activeView = "creator"
  /\ \E i \in 1..Len(lineItems) : lineItems[i].id = id
  /\ lineItems' = WithUpdate(lineItems, id, field, value)
  /\ last' = [op |-> "updateLineItem"]
  /\ UNCHANGED <<appVars, formVars, type, customerId, aiPrompt, isLoading,
                 pending, orphans, now, crashed, writeFailed>>

\* A guard that forgets the line items. C2 is measured against it.
SaveRejectedCustomerOnly == customerId = <<>>

\* if (!customerId || lineItems.length === 0)
SaveRejected == customerId = <<>> \/ Len(lineItems) = 0

saveDocument ==
  /\ ~crashed /\ activeView = "creator"
  /\ IF SaveRejected
       THEN /\ last' = [op |-> "saveDocument", ok |-> FALSE, write |-> "none", alert |-> TRUE]
            /\ UNCHANGED <<appVars, formVars, draftVars, pending, orphans, now,
                           crashed, writeFailed>>
       ELSE \E t \in now..MaxTime, setItemOk \in BOOLEAN :
              LET newDoc == [id |-> ToString(t), customerId |-> customerId, type |-> type,
                             date |-> ToISOString(t), lineItems |-> lineItems]
                  r == setValue(DocumentsKey, documents, AppendTo(documents, newDoc), setItemOk)
              IN  /\ IsArray(documents) => Len(documents.elems) < MaxDocuments
                  /\ now' = t
                  /\ documents' = r.stored
                  /\ store' = r.store
                  /\ writeFailed' = (writeFailed \/ r.write = "failed")
                  /\ activeView' = "dashboard"
                  /\ Remount("dashboard", customers)
                  /\ crashed' = RenderThrows("dashboard", customers, r.stored)
                  /\ last' = [op |-> "saveDocument", ok |-> TRUE, write |-> r.write, alert |-> FALSE]
                  /\ UNCHANGED customers

\* ------------------------------------------------------------ page load
\* root.render(<App />): both hooks read the store, the dashboard renders.
Loaded(st) ==
  /\ store = st
  /\ customers = ReadStored(st[CustomersKey], Arr(<<>>))
  /\ documents = ReadStored(st[DocumentsKey], Arr(<<>>))
  /\ activeView = "dashboard"
  /\ name = "" /\ email = "" /\ address = ""
  /\ type = "Invoice" /\ customerId = <<>> /\ lineItems = <<>>
  /\ aiPrompt = "" /\ isLoading = FALSE
  /\ pending = 0 /\ orphans = 0
  /\ crashed = RenderThrows("dashboard", customers, documents)
  /\ writeFailed = FALSE

\* The user reloads the page: the requests in flight die with it.
reload ==
  /\ store' = store
  /\ customers' = ReadStored(store[CustomersKey], Arr(<<>>))
  /\ documents' = ReadStored(store[DocumentsKey], Arr(<<>>))
  /\ activeView' = "dashboard"
  /\ FormInitial
  /\ DraftInitial("dashboard", customers')
  /\ pending' = 0 /\ orphans' = 0
  /\ crashed' = RenderThrows("dashboard", customers', documents')
  /\ writeFailed' = FALSE
  /\ last' = [op |-> "load"]
  /\ UNCHANGED now

Init ==
  /\ Loaded([k \in Keys |-> NoItem])
  /\ now = 0
  /\ last = [op |-> "load"]

Navigation == \E v \in Views : setActiveView(v)

CustomerForm(addresses) ==
  \/ \E v \in Names : setName(v)
  \/ \E v \in Emails : setEmail(v)
  \/ \E v \in addresses : setAddress(v)
  \/ handleSubmit

DraftFields ==
  \/ \E v \in DocumentTypes : setType(v)
  \/ \E c \in 1..MaxCustomers : IsArray(customers) /\ c <= Len(customers.elems)
                                  /\ setCustomerId(customers.elems[c].id)
  \/ \E v \in Prompts : setAiPrompt(v)

Generation(responses) ==
  \/ handleGenerateWithAI
  \/ \E live \in BOOLEAN, resp \in responses : aiComplete(live, resp)

LineItemEdits(inputs) ==
  \/ addLineItem
  \/ \E i \in 1..Len(lineItems) : removeLineItem(lineItems[i].id)
  \/ \E i \in 1..Len(lineItems), in \in inputs :
        updateLineItem(lineItems[i].id, in.field, in.value)

\* The whole application, with few kinds of answer, of row input and of address.
Next ==
  \/ Navigation
  \/ CustomerForm(FewAddresses)
  \/ DraftFields
  \/ Generation(FewResponses)
  \/ LineItemEdits(FewRowInputs)
  \/ saveDocument
  \/ reload

Spec == Init /\ [][Next]_vars

\* The document creator alone, opened on a store that holds one customer,
\* with every kind of answer and of row input.
OneCustomer ==
  [id |-> ToString(0), name |-> "Ann", email |-> "ann@example.com", address |-> ""]

InitCreator ==
  /\ Loaded([k \in Keys |-> IF k = CustomersKey
                              THEN JSONstringify(Arr(<<OneCustomer>>)) ELSE NoItem])
  /\ now = 0
  /\ last = [op |-> "load"]

NextCreator ==
  \/ Navigation
  \/ DraftFields
  \/ Generation(Responses)
  \/ LineItemEdits(RowInputs)

SpecCreator == InitCreator /\ [][NextCreator]_vars

\* The application loaded on whatever the two keys hold: nothing, the empty
\* string, a text that is not JSON, JSON that is not an array, or a collection
\* the application wrote. Every address, no answers from the service.
OneDocument ==
  [id |-> ToString(0), customerId |-> ToString(0), type |-> "Invoice",
   date |-> ToISOString(0),
   lineItems |-> <<[id |-> ToString(0), description |-> "", quantity |-> Num(1),
                    unitPrice |-> Num(0)]>>]

StartupTexts(k) ==
  { NoItem, EmptyText, MalformedText, JsonText(EmptyObject),
    JSONstringify(Arr(<<IF k = CustomersKey THEN OneCustomer ELSE OneDocument>>)) }

InitStartup ==
  /\ \E st \in [Keys -> UNION {StartupTexts(k) : k \in Keys}] :
       /\ \A k \in Keys : st[k] \in StartupTexts(k)
       /\ Loaded(st)
  /\ now = 0
  /\ last = [op |-> "load"]

NextStartup ==
  \/ Navigation
  \/ CustomerForm(Addresses)
  \/ DraftFields
  \/ LineItemEdits(FewRowInputs)
  \/ saveDocument
  \/ reload

SpecStartup == InitStartup /\ [][NextStartup]_vars

\* ================================================================ claims
Elems(v) == IF IsArray(v) THEN v.elems ELSE <<>>
IsPrefix(s, t) == Len(s) <= Len(t) /\ SubSeq(t, 1, Len(s)) = s
DistinctIds(items) ==
  \A i, j \in 1..Len(items) : i # j => items[i].id # items[j].id

\* The response schema: an object with lineItems, an array of objects that
\* each have a string description and numbers quantity and unitPrice.
ConformsToSchema(resp) ==
  /\ resp.kind = "text"
  /\ resp.text.kind = "json"
  /\ resp.text.lit.t = "object"
  /\ "lineItems" \in DOMAIN resp.text.lit
  /\ IsArray(resp.text.lit.lineItems)
  /\ \A i \in 1..Len(resp.text.lit.lineItems.elems) :
       {"description", "quantity", "unitPrice"} \subseteq DOMAIN resp.text.lit.lineItems.elems[i]

\* C1: a rejected addCustomer (empty name or email) or saveDocument (no
\* customer selected or no line items) leaves both collections, the store,
\* the draft and the active view as they were.
C1_RejectedChangesNothing ==
  [][ ( \/ (last'.op = "addCustomer" /\ (name = "" \/ email = ""))
        \/ (last'.op = "saveDocument" /\ (customerId = <<>> \/ Len(lineItems) = 0)) )
      => UNCHANGED <<customers, documents, store, type, customerId, lineItems, activeView>>
    ]_vars

\* A save was just rejected for want of a customer, on a draft that has line items.
C1_Witness ==
  /\ last.op = "saveDocument" /\ ~last.ok
  /\ customerId = <<>> /\ Len(lineItems) > 0

\* C2: saveDocument on a draft with a customer and line items appends one
\* document carrying the draft's type, customer and line items, hands the
\* whole new collection to the store and shows the dashboard; every document
\* in the collection has a customer and at least one line item.
AllDocumentsComplete ==
  \A i \in 1..Len(Elems(documents)) :
    /\ documents.elems[i].customerId # <<>>
    /\ Len(documents.elems[i].lineItems) > 0

C5_SavedItemIdsDistinct ==
  \A i \in 1..Len(Elems(documents)) : DistinctIds(documents.elems[i].lineItems)

C7_StoreMirrorsMemory ==
  ~writeFailed =>
    /\ ReadStored(store[CustomersKey], Arr(<<>>)) = customers
    /\ ReadStored(store[DocumentsKey], Arr(<<>>)) = documents

\* C3: a request of the mounted creator that completes with a failure (the
\* call rejected, a text that is not JSON, or JSON that is not what the
\* schema describes) reports an error, leaves lineItems as they were and
\* clears isLoading.
C3_FailureReportedAndHarmless ==
  [][ \A resp \in Responses :
        (last'.op = "aiComplete" /\ aiComplete(TRUE, resp) /\ ~ConformsToSchema(resp)) =>
          /\ last'.alert
          /\ lineItems' = lineItems
          /\ ~isLoading' ]_vars

\* The items of a response that conforms to the schema, as JSON.parse gives them
ParsedItems(resp) == JSONparse(resp.text).lineItems.elems

\* C4: a request of the mounted creator that completes with items R makes
\* lineItems exactly R in order, whatever the draft held, each item with a
\* new identifier and all identifiers distinct, and clears isLoading.
C4_SuccessReplacesItems ==
  [][ \A resp \in Responses :
        (last'.op = "aiComplete" /\ aiComplete(TRUE, resp) /\ ConformsToSchema(resp)) =>
          LET R == ParsedItems(resp)
          IN  /\ Len(lineItems') = Len(R)
              /\ \A i \in 1..Len(R) :
                   \A f \in DOMAIN R[i] : lineItems'[i][f] = R[i][f]
              /\ DistinctIds(lineItems')
              /\ ~isLoading' ]_vars

\* The collection in memory that a key backs
Memory(k) == IF k = CustomersKey THEN customers ELSE documents

\* What a key holds can be used as the collection: JSON text of an array
Usable(item) == item.kind = "json" /\ item.lit.t = "array"

\* C8: right after a load, a key that holds nothing usable as the collection
\* has given the empty collection and nothing was thrown; a write that fails
\* leaves the store as it was and the new collection in memory.
C8_StorageFailureContained ==
  /\ last.op = "load" =>
       /\ ~crashed
       /\ \A k \in Keys : ~Usable(store[k]) => Memory(k) = Arr(<<>>)
  /\ [][ /\ last'.op = "load" =>
              /\ ~crashed'
              /\ \A k \in Keys : ~Usable(store'[k]) => Memory(k)' = Arr(<<>>)
         /\ (last'.op \in {"addCustomer", "saveDocument"} /\ last'.write = "failed") =>
              /\ store' = store
              /\ \E k \in Keys : Len(Elems(Memory(k)')) = Len(Elems(Memory(k))) + 1
       ]_vars

\* C9: updateLineItem on the row at position i changes the named field of
\* that row and nothing else: not its other fields, not any other row, not
\* the length or order of lineItems, not the rest of the draft, not the
\* collections.
C9_UpdateTouchesOneField ==
  [][ \A i \in 1..Len(lineItems), in \in RowInputs :
        (last'.op = "updateLineItem"
           /\ updateLineItem(lineItems[i].id, in.field, in.value)) =>
          /\ Len(lineItems') = Len(lineItems)
          /\ lineItems'[i][in.field] = in.value
          /\ \A f \in DOMAIN lineItems[i] \ {in.field} : lineItems'[i][f] = lineItems[i][f]
          /\ \A j \in 1..Len(lineItems) : j # i => lineItems'[j] = lineItems[j]
          /\ UNCHANGED <<type, customerId, isLoading, customers, documents>> ]_vars

====
